---------------------------- MODULE Spec2Model ----------------------------
(***************************************************************************)
(* A model of dtree.py: the incremental distributions (DDist, CDist), the  *)
(* entropy / variance metrics, the batch builder create_decision_tree and  *)
(* the online Node.update / Node.predict protocol of Tree.                 *)
(*                                                                         *)
(* Numbers.  Python floats are modelled by exact rationals <<num, den>>    *)
(* (den > 0, lowest terms).  math.log is modelled by a table of log2 over  *)
(* the integers, in thousandths, built from the logs of the primes so that *)
(* log(x*y) = log(x) + log(y) holds exactly as it does over the reals.     *)
(*                                                                         *)
(* Trees.  A Node object is identified by the tuple of branch values that  *)
(* leads to it from the root (<<>> is the root); `nodes` maps the paths of *)
(* the Node objects that exist to their fields.                            *)
(***************************************************************************)
EXTENDS Integers, Sequences, FiniteSets, TLC

(***************************************************************************)
(* Bounds of the model.                                                    *)
(***************************************************************************)
\* number of Tree.update calls made on one tree
MaxUpdates == 3
MaxFold == 4
MaxDistOps == 3
\* number of rows of a dataset handed to Tree.build
MaxRows == 3
\* the splitting_n keyword given to Tree(...) (dtree.py:1069, tests use 17)
SplittingN == 2

(***************************************************************************)
(* Schema (Data.header_types / header_modes).                              *)
(***************************************************************************)
class_attr == "cls"
NOM == "nominal"
DIS == "discrete"
CON == "continuous"
\* the value of attr_name of an unsplit node, and of an absent policy
None == "None"

ENTROPY1 == "entropy1"
ENTROPY2 == "entropy2"
ENTROPY3 == "entropy3"
VARIANCE1 == "variance1"
VARIANCE2 == "variance2"
DISCRETE_METRICS == {ENTROPY1, ENTROPY2, ENTROPY3}
CONTINUOUS_METRICS == {VARIANCE1, VARIANCE2}
USE_NEAREST == "use_nearest"
MISSING_VALUE_POLICIES == {USE_NEAREST}

\* The schemas the model runs with (the non-class attributes, in header
\* order): online trees grow over a and b, batch trees are built over b, c
\* and d.
OnlineSchemas == {<<"a", "b">>}
BatchSchemas == {<<"b", "c", "d">>}
\* Python's order on the attribute names (None sorts below every string).
NameRank(name) == CASE name = None -> 0 [] name = "a" -> 2 [] name = "b" -> 4
                    [] name = "c" -> 6 [] name = "cls" -> 7 [] name = "d" -> 8
\* header_types of the non-class attributes: a and d are discrete, b and c
\* nominal.
AttrType(name) == IF name \in {"a", "d"} THEN DIS ELSE NOM
\* The values rows carry: a in 1..3, b, c and d in 1..2.
AttrValues(name) == IF name = "a" THEN {1, 2, 3} ELSE {1, 2}
\* Class values: names ordered as the integers (discrete class) or reals.
ClassValues == {1, 2}

(***************************************************************************)
(* Rationals.                                                              *)
(***************************************************************************)
Abs(x) == IF x < 0 THEN -x ELSE x

RECURSIVE Gcd(_, _)
Gcd(x, y) == IF y = 0 THEN x ELSE Gcd(y, x % y)

RNorm(n, d) ==
    LET g == Gcd(Abs(n), Abs(d))
        s == IF d < 0 THEN -1 ELSE 1
    IN  IF n = 0 THEN <<0, 1>> ELSE <<s * (n \div g), s * (d \div g)>>
RInt(k) == <<k, 1>>
RAdd(p, q) == RNorm(p[1] * q[2] + q[1] * p[2], p[2] * q[2])
RNeg(p) == <<-p[1], p[2]>>
RSub(p, q) == RAdd(p, RNeg(q))
RMul(p, q) ==
    LET g1 == Gcd(Abs(p[1]), q[2])
        g2 == Gcd(Abs(q[1]), p[2])
    IN  RNorm((p[1] \div g1) * (q[1] \div g2), (p[2] \div g2) * (q[2] \div g1))
RLe(p, q) == p[1] * q[2] <= q[1] * p[2]
RLt(p, q) == p[1] * q[2] < q[1] * p[2]

\* Sums of a function f over the finite set S of its arguments.
RECURSIVE RSum(_, _)
RSum(f, S) ==
    IF S = {} THEN RInt(0)
    ELSE LET x == CHOOSE y \in S : TRUE IN RAdd(f[x], RSum(f, S \ {x}))

RECURSIVE ISum(_, _)
ISum(f, S) ==
    IF S = {} THEN 0
    ELSE LET x == CHOOSE y \in S : TRUE IN f[x] + ISum(f, S \ {x})

\* math.log(k, 2) for k in 1..10, in thousandths.
Log2Table == <<0, 1000, 1585, 2000, 2322, 2585, 2807, 3000, 3170, 3322>>
\* -sum((c/total)*math.log(c/total, n) for c in counts.itervalues()), for a
\* function counts (key -> count): sum c*(log2(total) - log2(c)) over
\* total*log2(n).
PLogP(counts, total, n) ==
    RNorm(ISum([k \in DOMAIN counts |->
                   counts[k] * (Log2Table[total] - Log2Table[counts[k]])],
               DOMAIN counts),
          total * Log2Table[n])

Max2(x, y) == IF x >= y THEN x ELSE y

\* A dict with no key, and d[k] += c on a defaultdict(int).
EmptyDict == [k \in {} |-> 0]
DictAdd(d, k, c) ==
    IF k \in DOMAIN d THEN [d EXCEPT ![k] = @ + c] ELSE d @@ (k :> c)

(***************************************************************************)
(* DDist: counts (value -> count) and total.                               *)
(***************************************************************************)
DDist_clear == [counts |-> EmptyDict, total |-> 0]

DDist_add(d, k, count) ==
    [counts |-> DictAdd(d.counts, k, count), total |-> d.total + count]

\* DDist.update(dist): adds the other distribution's counts.
RECURSIVE DDist_merge_keys(_, _, _)
DDist_merge_keys(counts, other, keys) ==
    IF keys = {} THEN counts
    ELSE LET k == CHOOSE x \in keys : TRUE
         IN  DDist_merge_keys(DictAdd(counts, k, other[k]), other, keys \ {k})
DDist_update(d, dist) ==
    [counts |-> DDist_merge_keys(d.counts, dist.counts, DOMAIN dist.counts),
     total |-> d.total + dist.total]

\* DDist(seq=...): the values of a sequence, one add each.
RECURSIVE DDist_of(_)
DDist_of(seq) ==
    IF seq = <<>> THEN DDist_clear
    ELSE DDist_add(DDist_of(SubSeq(seq, 1, Len(seq) - 1)), seq[Len(seq)], 1)

\* A faulty variant of DDist_best: the first key of the greatest count.
DDist_best_first(d) ==
    IF DOMAIN d.counts = {} THEN None
    ELSE CHOOSE k \in DOMAIN d.counts :
           \A j \in DOMAIN d.counts :
              \/ d.counts[j] < d.counts[k]
              \/ d.counts[j] = d.counts[k] /\ k <= j

\* best: the key of the greatest (count, key) pair; None on no key.
DDist_best(d) ==
    IF DOMAIN d.counts = {} THEN None
    ELSE CHOOSE k \in DOMAIN d.counts :
           \A j \in DOMAIN d.counts :
              \/ d.counts[j] < d.counts[k]
              \/ d.counts[j] = d.counts[k] /\ j <= k

\* best_prob: the greatest counts[k]/total; undefined (None) on no key. The
\* operator gives the rational, DDist_has_probs whether it is defined.
DDist_has_probs(d) == DOMAIN d.counts # {}
DDist_best_prob(d) ==
    LET k == CHOOSE x \in DOMAIN d.counts :
                \A j \in DOMAIN d.counts : d.counts[j] <= d.counts[x]
    IN  RNorm(d.counts[k], d.total)

\* __getitem__: the probability of k.
DDist_getitem(d, k) ==
    RNorm(IF k \in DOMAIN d.counts THEN d.counts[k] ELSE 0, d.total)

(***************************************************************************)
(* CDist: mean_sum, mean_count and last_variance (the running sum of       *)
(* squared deviations).                                                    *)
(***************************************************************************)
CDist_clear == [mean_sum |-> 0, mean_count |-> 0, last_variance |-> RInt(0)]

\* count, mean and variance: mean and variance are None when mean_count = 0.
\* NoNumber is the None of a property that is a number otherwise (no
\* rational has denominator 0).
NoNumber == <<0, 0>>
CDist_count(cd) == cd.mean_count
CDist_mean(cd) ==
    IF cd.mean_count = 0 THEN NoNumber
    ELSE RNorm(cd.mean_sum, cd.mean_count)
CDist_variance(cd) ==
    IF cd.mean_count = 0 THEN NoNumber
    ELSE RMul(cd.last_variance, RNorm(1, cd.mean_count))

\* A faulty variant of CDist_iadd: both deviations are taken from the new
\* mean.
CDist_iadd_new_mean(cd, value) ==
    LET new_sum == cd.mean_sum + value
        new_count == cd.mean_count + 1
    IN  [mean_sum |-> new_sum,
         mean_count |-> new_count,
         last_variance |->
            IF CDist_mean(cd) = NoNumber THEN cd.last_variance
            ELSE RAdd(cd.last_variance,
                      RMul(RSub(RInt(value), RNorm(new_sum, new_count)),
                           RSub(RInt(value), RNorm(new_sum, new_count))))]

CDist_iadd(cd, value) ==
    LET new_sum == cd.mean_sum + value
        new_count == cd.mean_count + 1
    IN  [mean_sum |-> new_sum,
         mean_count |-> new_count,
         last_variance |->
            IF CDist_mean(cd) = NoNumber THEN cd.last_variance
            ELSE RAdd(cd.last_variance,
                      RMul(RSub(RInt(value), CDist_mean(cd)),
                           RSub(RInt(value), RNorm(new_sum, new_count))))]

RECURSIVE CDist_of(_)
CDist_of(seq) ==
    IF seq = <<>> THEN CDist_clear
    ELSE CDist_iadd(CDist_of(SubSeq(seq, 1, Len(seq) - 1)), seq[Len(seq)])

\* mean(seq) and variance(seq) of the module (population variance).
SeqSum(seq) == ISum(seq, DOMAIN seq)
mean(seq) == RNorm(SeqSum(seq), Len(seq))
variance(seq) ==
    LET m == mean(seq)
    IN  RMul(RSum([i \in DOMAIN seq |->
                      RMul(RSub(RInt(seq[i]), m), RSub(RInt(seq[i]), m))],
                  DOMAIN seq),
             RNorm(1, Len(seq)))

(***************************************************************************)
(* The state: one Tree and the outcome of the last call made on it.        *)
(***************************************************************************)
VARIABLES
    header_order,         \* Data.header_order without the class attribute
    is_continuous_class,  \* Data.is_continuous_class
    metric,               \* Tree.metric
    leaf_threshold,       \* Tree.leaf_threshold: [none |-> BOOLEAN, val |-> rational]
    auto_grow,            \* Tree.auto_grow
    missing_value_policy, \* Tree.missing_value_policy: attribute -> policy
    leaf_count,           \* Tree.leaf_count
    built,                \* TRUE for a tree made by Tree.build
    root,                 \* Tree._tree: "node", or the distribution build left there
    nodes,                \* the Node objects: path -> fields
    updates,              \* number of Tree.update calls made
    trained,              \* the rows handed to build / update so far
    updated,              \* the records Tree.update was given: record -> times
    built_data,           \* the list of rows build was given (<<>> otherwise)
    last,                 \* the last call: operation, record (update) and outcome
    folded,               \* the numbers folded into cdist, in order
    cdist,                \* a CDist on its own
    ddist,                \* a DDist on its own
    dist_ops              \* number of add / update calls made on ddist

TreeVars == <<header_order, is_continuous_class, metric, leaf_threshold,
              auto_grow, missing_value_policy, leaf_count, built, root, nodes,
              updates, trained, updated, built_data, last>>
DistVars == <<folded, cdist, ddist, dist_ops>>
vars == <<TreeVars, DistVars>>

splitting_n == SplittingN
attribute_names == {header_order[i] : i \in DOMAIN header_order}

\* Rows: every schema attribute and the class (Data.validate_row of a
\* positional row); query records carry the attributes only.
Rows == {r \in [attribute_names \cup {class_attr} -> 1..3] :
            /\ r[class_attr] \in ClassValues
            /\ \A an \in attribute_names : r[an] \in AttrValues(an)}
Queries == {r \in [attribute_names -> 1..3] :
               \A an \in attribute_names : r[an] \in AttrValues(an)}

(***************************************************************************)
(* Batch metrics over a list of records (entropy, entropy_variance, gain). *)
(***************************************************************************)
ClassColumn(data) == [i \in DOMAIN data |-> data[i][class_attr]]

\* lines 268-282, for the class counts of the data
EntropyOfCounts(counts, total, method) ==
    CASE method = ENTROPY1 ->
           PLogP(counts, total, Max2(2, Cardinality(DOMAIN counts)))
      [] method = ENTROPY2 ->
           RSub(PLogP(counts, total, Max2(2, Cardinality(DOMAIN counts))),
                RNorm(Cardinality(DOMAIN counts) - 1, total))
      [] method = ENTROPY3 ->
           RSub(PLogP(counts, total, Max2(2, Cardinality(DOMAIN counts))),
                RMul(RInt(100), RNorm(Cardinality(DOMAIN counts) - 1, total)))

entropy(data, method) ==
    EntropyOfCounts(DDist_of(ClassColumn(data)).counts, Len(data), method)

entropy_variance(data, method) == variance(ClassColumn(data))

entropy_func(data, method) ==
    IF is_continuous_class THEN entropy_variance(data, method)
    ELSE entropy(data, method)

Subset(data, attr, val) == SelectSeq(data, LAMBDA r : r[attr] = val)
get_values_of(data, attr) == {data[i][attr] : i \in DOMAIN data}

\* lines 328-332: the entropy of the subsets, weighted by their share
SubsetEntropy(data, attr, method, vals) ==
    RSum([v \in vals |->
             RMul(RNorm(Len(Subset(data, attr, v)), Len(data)),
                  entropy_func(Subset(data, attr, v), method))],
         vals)

gain(data, attr, method) ==
    RSub(entropy_func(data, method),
         SubsetEntropy(data, attr, method, get_values_of(data, attr)))

\* A faulty variant of ArgMax: among equal gains the least name.
ArgMaxLeastName(gains) ==
    IF DOMAIN gains = {} THEN None
    ELSE CHOOSE a \in DOMAIN gains :
           \A o \in DOMAIN gains :
              \/ RLt(gains[o], gains[a])
              \/ gains[o] = gains[a] /\ NameRank(a) <= NameRank(o)

\* max over (gain, attr) tuples, from (-inf, None): the greatest gain, and
\* among equal gains the greatest name.
ArgMax(gains) ==
    IF DOMAIN gains = {} THEN None
    ELSE CHOOSE a \in DOMAIN gains :
           \A o \in DOMAIN gains :
              \/ RLt(gains[o], gains[a])
              \/ gains[o] = gains[a] /\ NameRank(o) <= NameRank(a)

\* the class attribute is passed over (lines 412-413)
choose_attribute(data, attrs, method) ==
    ArgMax([a \in attrs \ {class_attr} |-> gain(data, a, method)])

(***************************************************************************)
(* Node.                                                                   *)
(***************************************************************************)
\* Node.__init__(tree, attr_name)
Node(attr_name) ==
    [n |-> 0,
     attr_name |-> attr_name,
     attr_value_counts |-> EmptyDict,        \* {attr_name: {attr_value: count}}
     attr_value_count_totals |-> EmptyDict,  \* {attr_name: total}
     attr_class_value_counts |-> EmptyDict,  \* {attr_name: {attr_value: {class_value: count}}}
     class_ddist |-> DDist_clear,
     attr_value_cdist |-> EmptyDict,         \* {attr_name: {attr_value: CDist}}
     class_cdist |-> CDist_clear,
     branches |-> {}]                        \* the keys of _branches

\* d[k] of a defaultdict whose factory gives dflt, and d[k] = x.
DictGet(d, k, dflt) == IF k \in DOMAIN d THEN d[k] ELSE dflt
DictSet(d, k, x) == IF k \in DOMAIN d THEN [d EXCEPT ![k] = x] ELSE d @@ (k :> x)

\* Node.get_values(attr_name)
get_values(node, attr_name) ==
    DOMAIN DictGet(node.attr_value_cdist, attr_name, EmptyDict)
      \cup DOMAIN DictGet(node.attr_value_counts, attr_name, EmptyDict)
      \cup node.branches

\* Node.set_leaf_dist(attr_value, dist)
RECURSIVE AddClassCounts(_, _, _)
AddClassCounts(cc, counts, keys) ==
    IF keys = {} THEN cc
    ELSE LET k == CHOOSE x \in keys : TRUE
         IN  AddClassCounts(DictAdd(cc, k, counts[k]), counts, keys \ {k})

set_leaf_dist(node, attr_value, dist) ==
    LET an == node.attr_name IN
    IF is_continuous_class
    THEN [node EXCEPT !.attr_value_cdist =
            DictSet(@, an, DictSet(DictGet(@, an, EmptyDict), attr_value, dist))]
    ELSE [node EXCEPT
            !.attr_value_counts =
                DictSet(@, an, DictAdd(DictGet(@, an, EmptyDict), attr_value, 1)),
            !.attr_value_count_totals = DictAdd(@, an, 1),
            !.attr_class_value_counts =
                DictSet(@, an,
                    DictSet(DictGet(@, an, EmptyDict), attr_value,
                        AddClassCounts(
                            DictGet(DictGet(@, an, EmptyDict), attr_value, EmptyDict),
                            dist.counts, DOMAIN dist.counts)))]

RECURSIVE SetLeafDists(_, _, _)
SetLeafDists(node, sub, vals) ==
    IF vals = {} THEN node
    ELSE LET v == CHOOSE x \in vals : TRUE
         IN  SetLeafDists(set_leaf_dist(node, v, sub[v].dist), sub, vals \ {v})

(***************************************************************************)
(* create_decision_tree(data, attributes, ...): the subtree built from     *)
(* data.  The result is a distribution (is_node FALSE) or a Node with the  *)
(* Node objects below it (paths relative to it); leaves counts the         *)
(* increments of wrapper.leaf_count.                                       *)
(***************************************************************************)
\* lines 428-438: the stop distribution and the stop test
StopValue(data) ==
    IF is_continuous_class THEN CDist_of(ClassColumn(data))
    ELSE DDist_of(ClassColumn(data))
StopTest(stop_value) ==
    IF is_continuous_class
    THEN /\ ~leaf_threshold.none
         /\ \/ stop_value.mean_count = 0
            \/ RLe(CDist_variance(stop_value), leaf_threshold.val)
    ELSE Cardinality(DOMAIN stop_value.counts) <= 1

\* lines 440-452: a leaf is returned, and counted
IsLeafCase(data, attrs) ==
    \/ data = <<>>
    \/ Cardinality(attrs) - 1 <= 0
    \/ StopTest(StopValue(data))
LeafResult(stop_value) ==
    [is_node |-> FALSE, dist |-> stop_value, nodes |-> EmptyDict, leaves |-> 1]

\* lines 465-488: the node made for attribute best, from the subtrees sub
\* (value -> result) of its values
ChildNodeValues(sub) == {v \in DOMAIN sub : sub[v].is_node}
NodePaths(sub, node_vals) ==
    {<<>>} \cup UNION {{<<v>> \o p : p \in DOMAIN sub[v].nodes} : v \in node_vals}
\* A faulty variant of BuiltNode: n counts the subtrees, not the records.
BuiltNodeBySubtree(data, best, sub) ==
    SetLeafDists([Node(best) EXCEPT !.n = Cardinality(DOMAIN sub),
                                    !.branches = ChildNodeValues(sub)],
                 sub, DOMAIN sub \ ChildNodeValues(sub))

BuiltNode(data, best, sub) ==
    SetLeafDists([Node(best) EXCEPT !.n = Len(data),
                                    !.branches = ChildNodeValues(sub)],
                 sub, DOMAIN sub \ ChildNodeValues(sub))
NodeResult(data, best, sub) ==
    [is_node |-> TRUE, dist |-> DDist_clear,
     nodes |-> [p \in NodePaths(sub, ChildNodeValues(sub)) |->
                  IF p = <<>> THEN BuiltNode(data, best, sub)
                  ELSE sub[Head(p)].nodes[Tail(p)]],
     leaves |-> ISum([v \in DOMAIN sub |-> sub[v].leaves], DOMAIN sub)]

RECURSIVE create_decision_tree(_, _)
RECURSIVE SplitOn(_, _, _)
SplitOn(data, attrs, best) ==
    NodeResult(data, best,
               [v \in get_values_of(data, best) |->
                  create_decision_tree(Subset(data, best, v), attrs \ {best})])

create_decision_tree(data, attrs) ==
    IF IsLeafCase(data, attrs) THEN LeafResult(StopValue(data))
    ELSE SplitOn(data, attrs, choose_attribute(data, attrs, metric))

(***************************************************************************)
(* Metrics over the cached statistics of a node.                           *)
(***************************************************************************)
\* Node.get_entropy(): the node's class entropy / variance (attr_name None).
main_entropy(node) ==
    IF is_continuous_class
    THEN CDist_variance(node.class_cdist)
    ELSE LET total == node.class_ddist.total
             counts == node.class_ddist.counts
             unique_value_count == Cardinality(DOMAIN counts)
             attr_total == total
             n == Max2(2, Cardinality(DOMAIN counts))
             h == PLogP(counts, total, n)
             pen == RNorm(unique_value_count, attr_total)
         IN  CASE metric = ENTROPY1 -> h
               [] metric = ENTROPY2 -> RAdd(h, pen)
               [] metric = ENTROPY3 -> RAdd(h, RMul(RInt(100), pen))

\* Node.get_entropy(attr_name, attr_value)
get_entropy(node, attr_name, attr_value) ==
    LET unique_value_count == Cardinality(DOMAIN node.attr_value_counts[attr_name])
        attr_total == node.attr_value_count_totals[attr_name]
    IN  IF is_continuous_class
        THEN LET var == CDist_variance(node.attr_value_cdist[attr_name][attr_value])
             IN  IF metric = VARIANCE1 THEN var
                 ELSE RMul(var, RNorm(unique_value_count, attr_total))
        ELSE LET total == node.attr_value_counts[attr_name][attr_value]
                 counts == node.attr_class_value_counts[attr_name][attr_value]
                 n == Max2(2, Cardinality(DOMAIN counts))
                 h == PLogP(counts, total, n)
                 pen == RNorm(unique_value_count, attr_total)
             IN  CASE metric = ENTROPY1 -> h
                   [] metric = ENTROPY2 -> RAdd(h, pen)
                   [] metric = ENTROPY3 -> RAdd(h, RMul(RInt(100), pen))

\* Node.get_value_prob(attr_name, value)
get_value_prob(node, attr_name, value) ==
    RNorm(node.attr_value_counts[attr_name][value],
          node.attr_value_count_totals[attr_name])

\* A faulty variant of get_gain: the difference is taken the other way.
get_gain_swapped(node, attr_name) ==
    LET vals == DOMAIN node.attr_value_counts[attr_name]
        subset_entropy ==
            RSum([v \in vals |->
                     RMul(get_value_prob(node, attr_name, v),
                          get_entropy(node, attr_name, v))],
                 vals)
    IN  RSub(subset_entropy, main_entropy(node))

\* Node.get_gain(attr_name)
get_gain(node, attr_name) ==
    LET vals == DOMAIN node.attr_value_counts[attr_name]
        subset_entropy ==
            RSum([v \in vals |->
                     RMul(get_value_prob(node, attr_name, v),
                          get_entropy(node, attr_name, v))],
                 vals)
    IN  RSub(main_entropy(node), subset_entropy)

\* Node.attributes: the keys of _attr_value_counts.  (A split that finds no
\* attribute leaves the key None there; its gain pair (main_entropy, None)
\* again yields None, so that key is not kept.)
attributes(node) == DOMAIN node.attr_value_counts

\* Node.get_best_splitting_attr(): max over (gain, attr), from (-inf, None).
get_best_splitting_attr(node) ==
    ArgMax([a \in attributes(node) |-> get_gain(node, a)])

\* Node.ready_to_predict
ready_to_predict(node) == node.n > 0

\* A faulty variant of PredictsAdequately: a leaf exactly at the threshold
\* does not count as adequate.
PredictsAdequatelyStrict(node) ==
    IF is_continuous_class
    THEN /\ CDist_variance(node.class_cdist) # NoNumber
         /\ ~leaf_threshold.none
         /\ RLt(CDist_variance(node.class_cdist), leaf_threshold.val)
    ELSE /\ DDist_has_probs(node.class_ddist)
         /\ ~leaf_threshold.none
         /\ RLt(leaf_threshold.val, DDist_best_prob(node.class_ddist))

\* lines 933-944: a leaf that predicts adequately
PredictsAdequately(node) ==
    IF is_continuous_class
    THEN /\ CDist_variance(node.class_cdist) # NoNumber
         /\ ~leaf_threshold.none
         /\ RLe(CDist_variance(node.class_cdist), leaf_threshold.val)
    ELSE /\ DDist_has_probs(node.class_ddist)
         /\ ~leaf_threshold.none
         /\ RLe(leaf_threshold.val, DDist_best_prob(node.class_ddist))

\* A faulty variant of ready_to_split: a node that has split may split again.
ready_to_split_again(node) ==
    IF PredictsAdequately(node) THEN FALSE
    ELSE auto_grow /\ node.n >= splitting_n

\* A faulty variant of ready_to_split: auto_grow is not consulted.
ready_to_split_ungated(node) ==
    IF PredictsAdequately(node) THEN FALSE
    ELSE node.attr_name = None /\ node.n >= splitting_n

\* Node.ready_to_split
ready_to_split(node) ==
    IF PredictsAdequately(node) THEN FALSE
    ELSE auto_grow /\ node.attr_name = None /\ node.n >= splitting_n

\* Node.get_value_ddist(attr_name, attr_value)
get_value_ddist(node, attr_name, attr_value) ==
    LET cls_counts == DictGet(DictGet(node.attr_class_value_counts, attr_name,
                                      EmptyDict), attr_value, EmptyDict)
    IN  [counts |-> cls_counts, total |-> ISum(cls_counts, DOMAIN cls_counts)]

(***************************************************************************)
(* Node.update(record).  The statistics of the node at `path` are updated, *)
(* the node splits when ready, and the record, less the split attribute,   *)
(* goes on to the child keyed by its value.  _branches is a plain dict: a  *)
(* value with no child raises KeyError, after the statistics on the way    *)
(* down were changed.  The result is the Node objects, leaf_count and the  *)
(* exception raised (None for a normal return).                            *)
(***************************************************************************)
\* A faulty variant of CountTotals: the total is set, not incremented.
SetTotals(totals, ans) ==
    [an \in DOMAIN totals \cup ans |-> IF an \in ans THEN 1 ELSE totals[an]]

\* line 1021: _attr_value_count_totals[an] += 1 for the attributes ans of the
\* record
CountTotals(totals, ans) ==
    [an \in DOMAIN totals \cup ans |->
       IF an \in ans THEN DictGet(totals, an, 0) + 1 ELSE totals[an]]

\* lines 1003-1025: n, the class statistics and the attribute statistics
UpdateStatistics(node, record) ==
    LET class_value == record[class_attr]
        ans == DOMAIN record \ {class_attr}
    IN  [node EXCEPT
           !.n = @ + 1,
           !.class_cdist = IF is_continuous_class THEN CDist_iadd(@, class_value)
                           ELSE @,
           !.class_ddist = IF is_continuous_class THEN @
                           ELSE DDist_add(@, class_value, 1),
           !.attr_value_counts =
               [an \in DOMAIN @ \cup ans |->
                  IF an \in ans
                  THEN DictAdd(DictGet(@, an, EmptyDict), record[an], 1)
                  ELSE @[an]],
           !.attr_value_count_totals = CountTotals(@, ans),
           !.attr_value_cdist =
               IF ~is_continuous_class THEN @
               ELSE [an \in DOMAIN @ \cup ans |->
                       IF an \in ans
                       THEN LET d == DictGet(@, an, EmptyDict)
                            IN  DictSet(d, record[an],
                                   CDist_iadd(DictGet(d, record[an], CDist_clear),
                                              class_value))
                       ELSE @[an]],
           !.attr_class_value_counts =
               IF is_continuous_class THEN @
               ELSE [an \in DOMAIN @ \cup ans |->
                       IF an \in ans
                       THEN LET d == DictGet(@, an, EmptyDict)
                            IN  DictSet(d, record[an],
                                   DictAdd(DictGet(d, record[an], EmptyDict),
                                           class_value, 1))
                       ELSE @[an]]]

\* lines 1032-1034: the values that get a new, empty child at a split
SplitValues(node, best) ==
    IF best = None THEN {} ELSE DOMAIN node.attr_value_counts[best]

\* lines 1038-1040: the child the record is handed to; it exists when the
\* key is one of _branches
HasBranch(node, key) == key \in node.branches

\* What Node.update leaves behind: the nodes, Tree.leaf_count, the record
\* object it was given (it deletes keys from it) and the exception raised.
UpdateResult(ns, lc, record, error) ==
    [nodes |-> ns, leaf_count |-> lc, record |-> record, error |-> error]

\* A faulty variant of DelKey: the key stays in the record.
KeepKey(record, an) == record

\* del record[attr_name]
DelKey(record, an) == [x \in DOMAIN record \ {an} |-> record[x]]

RECURSIVE Node_update(_, _, _, _)

\* lines 1036-1040: a split node hands the record, less its attribute, to
\* the child of the record's value
RECURSIVE Propagate(_, _, _, _)
Propagate(ns, lc, path, record) ==
    IF ns[path].attr_name = None THEN UpdateResult(ns, lc, record, None)
    ELSE IF ns[path].attr_name \notin DOMAIN record
    THEN UpdateResult(ns, lc, record, "KeyError")
    ELSE IF ~HasBranch(ns[path], record[ns[path].attr_name])
    THEN UpdateResult(ns, lc, DelKey(record, ns[path].attr_name), "KeyError")
    ELSE Node_update(ns, lc, Append(path, record[ns[path].attr_name]),
                     DelKey(record, ns[path].attr_name))

\* lines 1029-1034: the node takes the best attribute and gets one new, empty
\* child for each of its values; leaf_count loses one and gains one a child
ChildPaths(path, vals) == {Append(path, v) : v \in vals}

\* A faulty variant of SplitNode: the new children start from the statistics
\* of the node that splits.
SplitNodeCopy(ns, path, best, new_vals) ==
    [p \in DOMAIN ns \cup ChildPaths(path, new_vals) |->
       IF p = path
       THEN [ns[path] EXCEPT !.attr_name = best, !.branches = @ \cup new_vals]
       ELSE IF p \in ChildPaths(path, new_vals)
       THEN [ns[path] EXCEPT !.attr_name = None]
       ELSE ns[p]]

SplitNode(ns, path, best, new_vals) ==
    [p \in DOMAIN ns \cup ChildPaths(path, new_vals) |->
       IF p = path
       THEN [ns[path] EXCEPT !.attr_name = best, !.branches = @ \cup new_vals]
       ELSE IF p \in ChildPaths(path, new_vals) THEN Node(None)
       ELSE ns[p]]
SplitLeafCount(lc, new_vals) == lc - 1 + Cardinality(new_vals)

\* lines 1027-1040, on the node with its statistics updated
RECURSIVE SplitAndPropagate(_, _, _, _)
SplitAndPropagate(ns, lc, path, record) ==
    IF ready_to_split(ns[path])
    THEN Propagate(
           SplitNode(ns, path, get_best_splitting_attr(ns[path]),
                     SplitValues(ns[path], get_best_splitting_attr(ns[path]))),
           SplitLeafCount(lc, SplitValues(ns[path],
                                          get_best_splitting_attr(ns[path]))),
           path, record)
    ELSE Propagate(ns, lc, path, record)

\* A faulty variant of Node_update: a node that has split no longer counts
\* the records that pass through it.
Node_update_frozen(ns, lc, path, record) ==
    IF ns[path].attr_name # None THEN SplitAndPropagate(ns, lc, path, record)
    ELSE SplitAndPropagate([ns EXCEPT ![path] = UpdateStatistics(@, record)],
                           lc, path, record)

Node_update(ns, lc, path, record) ==
    SplitAndPropagate([ns EXCEPT ![path] = UpdateStatistics(@, record)],
                      lc, path, record)

(***************************************************************************)
(* Node.predict(record).  The outcome is a distribution (kind "dist") or   *)
(* the exception raised.                                                   *)
(***************************************************************************)
Raise(exc) == [kind |-> exc, dist |-> DDist_clear]
Return(dist) == [kind |-> "dist", dist |-> dist]

\* A faulty variant of Nearest: max in place of min.
Farthest(attr_values, attr_value) ==
    CHOOSE v \in attr_values :
       \A o \in attr_values :
          \/ Abs(v - attr_value) > Abs(o - attr_value)
          \/ Abs(v - attr_value) = Abs(o - attr_value) /\ v >= o

\* use_nearest: min over (abs(_value - attr_value), _value) tuples
Nearest(attr_values, attr_value) ==
    CHOOSE v \in attr_values :
       \A o \in attr_values :
          \/ Abs(v - attr_value) < Abs(o - attr_value)
          \/ Abs(v - attr_value) = Abs(o - attr_value) /\ v <= o

\* A faulty variant of _get_attribute_value_for_node: an unknown value is
\* resolved to the nearest known one whether or not a policy is installed.
get_attribute_value_unchecked(node, record) ==
    IF node.attr_name = None THEN [error |-> None, value |-> 0]
    ELSE IF record[node.attr_name] \in get_values(node, node.attr_name)
    THEN [error |-> None, value |-> record[node.attr_name]]
    ELSE [error |-> None,
          value |-> Nearest(get_values(node, node.attr_name),
                            record[node.attr_name])]

\* Node._get_attribute_value_for_node(record): the value (0 for the None an
\* unsplit node returns) or the exception raised.
get_attribute_value_for_node(node, record) ==
    LET attr == node.attr_name IN
    IF attr = None THEN [error |-> None, value |-> 0]
    ELSE IF attr \notin DOMAIN record THEN [error |-> "KeyError", value |-> 0]
    ELSE LET attr_value == record[attr]
             attr_values == get_values(node, attr)
             policy == DictGet(missing_value_policy, attr, None)
         IN  IF attr_value \in attr_values
             THEN [error |-> None, value |-> attr_value]
             ELSE IF policy = None
             THEN [error |-> "AssertionError", value |-> 0]
             ELSE IF policy = USE_NEAREST
             THEN IF AttrType(attr) \notin {DIS, CON}
                  THEN [error |-> "AssertionError", value |-> 0]
                  ELSE [error |-> None, value |-> Nearest(attr_values, attr_value)]
             ELSE [error |-> "Exception", value |-> 0]

\* lines 909-922: the decision made at the node itself
NodeDecision(node, attr_value) ==
    IF node.attr_name # None
    THEN IF is_continuous_class
         THEN DictGet(DictGet(node.attr_value_cdist, node.attr_name, EmptyDict),
                      attr_value, CDist_clear)
         ELSE get_value_ddist(node, node.attr_name, attr_value)
    ELSE IF is_continuous_class THEN node.class_cdist
    ELSE node.class_ddist

\* A faulty variant of ChildOutcome: nothing is caught.
PassChildOutcome(node, attr_value, sub) == sub

\* A faulty variant of ChildOutcome: a child that is not ready answers with
\* its own, empty, class distribution.
EmptyChildOutcome(node, attr_value, sub) ==
    IF sub.kind = "NodeNotReadyToPredict"
    THEN Return(IF is_continuous_class THEN CDist_clear ELSE DDist_clear)
    ELSE sub

\* lines 903-907: what the node does with the outcome of its child: only
\* NodeNotReadyToPredict is caught, and answered by the node itself
ChildOutcome(node, attr_value, sub) ==
    IF sub.kind = "NodeNotReadyToPredict"
    THEN Return(NodeDecision(node, attr_value))
    ELSE sub

RECURSIVE Node_predict(_, _, _)
Node_predict(ns, path, record) ==
    LET node == ns[path]
        av == get_attribute_value_for_node(node, record)
    IN  IF ~ready_to_predict(node) THEN Raise("NodeNotReadyToPredict")
        ELSE IF av.error # None THEN Raise(av.error)
        ELSE IF node.attr_name # None /\ av.value \in node.branches
        THEN ChildOutcome(node, av.value,
                          Node_predict(ns, Append(path, av.value), record))
        ELSE Return(NodeDecision(node, av.value))

\* Tree.predict(record): after a build that returned a bare distribution,
\* _tree has no predict method.
Tree_predict(record) ==
    IF root # "node" THEN Raise("AttributeError")
    ELSE Node_predict(nodes, <<>>, record)

(***************************************************************************)
(* Tree: construction and the calls made on it.                            *)
(***************************************************************************)
Threshold(num, den) == [none |-> FALSE, val |-> RNorm(num, den)]
NoThreshold == [none |-> TRUE, val |-> RInt(0)]

\* The keyword arguments the trees are constructed with: the metrics with
\* the default leaf_threshold (1.0 discrete, 0.0 continuous), leaf_threshold
\* None for a continuous class, auto_grow on and, online, off (the default).
Kwargs(con, m, thr, grow) ==
    [is_continuous_class |-> con, metric |-> m, leaf_threshold |-> thr,
     auto_grow |-> grow]
OnlineKwargs ==
    {Kwargs(FALSE, m, Threshold(1, 1), TRUE) : m \in {ENTROPY1, ENTROPY2}}
      \cup {Kwargs(TRUE, m, Threshold(0, 1), TRUE) : m \in CONTINUOUS_METRICS}
      \cup {Kwargs(TRUE, VARIANCE1, NoThreshold, TRUE),
            Kwargs(FALSE, ENTROPY1, Threshold(1, 1), FALSE)}
BatchKwargs ==
    {Kwargs(FALSE, m, Threshold(1, 1), FALSE) : m \in DISCRETE_METRICS}
      \cup {Kwargs(TRUE, m, Threshold(0, 1), FALSE) : m \in CONTINUOUS_METRICS}
      \cup {Kwargs(TRUE, VARIANCE1, NoThreshold, FALSE)}

\* The record of a call that takes none.
NoRecord == EmptyDict
\* The last call: the operation, the record the caller passed (kept for an
\* update), whether the caller's record object is the same after the call,
\* and the outcome.
Call(op, record, intact, outcome) ==
    [op |-> op, record |-> record, intact |-> intact, outcome |-> outcome]
NoCall == Call("init", NoRecord, TRUE, Raise(None))

\* A faulty variant of CallerRecord: the caller's own object is handed down.
CallerRecordShared(record, handed) == handed

\* record = record.copy() in Tree.update and Tree.predict: the caller's
\* record after the call, given the record before it and the state in which
\* the call left the object it handed to the root node.
CallerRecord(record, handed) == record

\* Tree.__init__(data, metric=, splitting_n=, auto_grow=, leaf_threshold=):
\* the fields common to a tree made by Tree(...) and by Tree.build(...)
TreeInit(kw) ==
    /\ is_continuous_class = kw.is_continuous_class
    /\ metric = kw.metric
    /\ leaf_threshold = kw.leaf_threshold
    /\ auto_grow = kw.auto_grow
    /\ missing_value_policy = EmptyDict
    /\ leaf_count = 0
    /\ built = FALSE
    /\ updates = 0
    /\ trained = {}
    /\ updated = EmptyDict
    /\ built_data = <<>>
    /\ last = NoCall

\* Either a tree made by Tree(data, **kwargs), whose root is an empty Node,
\* or a call of Tree.build(data, **kwargs) about to be made ("unbuilt": no
\* tree object exists before build returns it).
\* CDist() and DDist(): fresh distributions, nothing folded in.
DistInit ==
    /\ folded = <<>>
    /\ cdist = CDist_clear
    /\ ddist = DDist_clear
    /\ dist_ops = 0

Init ==
    /\ DistInit
    /\ \/ /\ header_order \in OnlineSchemas
          /\ \E kw \in OnlineKwargs : TreeInit(kw)
          /\ root = "node"
          /\ nodes = (<<>> :> Node(None))
       \/ /\ header_order \in BatchSchemas
          /\ \E kw \in BatchKwargs : TreeInit(kw)
          /\ root = "unbuilt"
          /\ nodes = EmptyDict

Config == <<header_order, is_continuous_class, metric, leaf_threshold, auto_grow>>

\* The datasets handed to build, as lists of at most k rows in a fixed order
\* (the order of the rows does not enter the result).
RowRank(r) ==
    r[class_attr] + 2 * ISum([an \in attribute_names |-> NameRank(an) * 7 * r[an]],
                      attribute_names)
Sorted(d) == \A i \in 1..(Len(d) - 1) : RowRank(d[i]) <= RowRank(d[i + 1])
Datasets(rows, k) ==
    {d \in UNION {[1..len -> rows] : len \in 0..k} : Sorted(d)}

\* Tree.build(data, **kwargs)
Build ==
    /\ root = "unbuilt"
    /\ \E rows \in Datasets(Rows, MaxRows) :
         LET t == create_decision_tree(rows, attribute_names)
         IN  /\ root' = IF t.is_node THEN "node"
                        ELSE IF is_continuous_class THEN "cdist" ELSE "ddist"
             /\ nodes' = t.nodes
             /\ leaf_count' = leaf_count + t.leaves
             /\ trained' = {rows[i] : i \in DOMAIN rows}
             /\ built_data' = rows
             /\ last' = Call("build", NoRecord, TRUE,
                              IF t.is_node THEN Raise(None) ELSE Return(t.dist))
    /\ built' = TRUE
    /\ UNCHANGED <<Config, missing_value_policy, updates, updated, DistVars>>

\* Tree.update(record), on a tree grown online (the model makes no update
\* on a tree made by build).
Tree_update ==
    /\ root = "node"
    /\ ~built
    /\ updates < MaxUpdates
    /\ \E record \in Rows :
         LET r == Node_update(nodes, leaf_count, <<>>, record)
         IN  /\ nodes' = r.nodes
             /\ leaf_count' = r.leaf_count
             /\ trained' = trained \cup {record}
             /\ updated' = DictAdd(updated, record, 1)
             /\ last' = Call("update", record,
                              CallerRecord(record, r.record) = record,
                              Raise(r.error))
    /\ updates' = updates + 1
    /\ UNCHANGED <<Config, missing_value_policy, built, root, built_data,
                   DistVars>>

\* Tree.predict(record)
Predict ==
    /\ root # "unbuilt"
    /\ \E record \in Queries :
         last' = Call("predict", NoRecord,
                      CallerRecord(record, record) = record,
                      Tree_predict(record))
    /\ UNCHANGED <<Config, missing_value_policy, leaf_count, built, root, nodes,
                   updates, trained, updated, built_data, DistVars>>

\* Tree.set_missing_value_policy(policy, target_attr_name)
PolicyAfter(policy, target_attr_name) ==
    [an \in DOMAIN missing_value_policy \cup
            {x \in attribute_names :
                target_attr_name = None \/ target_attr_name = x} |->
       IF target_attr_name = None \/ target_attr_name = an
       THEN policy ELSE missing_value_policy[an]]

\* The targets the model calls it with: None sets every attribute, as the
\* tests do.  The call is made on a tree whose root has split, where a
\* policy has a value to resolve.
PolicyTargets == {None}

set_missing_value_policy ==
    /\ root = "node"
    /\ nodes[<<>>].attr_name # None
    /\ \E policy \in MISSING_VALUE_POLICIES, target \in PolicyTargets :
         missing_value_policy' = PolicyAfter(policy, target)
    /\ last' = Call("set_missing_value_policy", NoRecord, TRUE, Raise(None))
    /\ UNCHANGED <<Config, leaf_count, built, root, nodes, updates, trained,
                   updated, built_data, DistVars>>

Next ==
    \/ Build
    \/ Tree_update
    \/ Predict
    \/ set_missing_value_policy

Spec == Init /\ [][Next]_vars

(***************************************************************************)
(* The distributions on their own: a CDist that numbers are folded into    *)
(* and a DDist that add and update (merge) are called on, beside a tree    *)
(* that no call is made on.                                                *)
(***************************************************************************)
Numbers == {-1, 0, 3}
Keys == {1, 2, 3}
AddCounts == {1, 2}
\* The distributions merged in: DDist(seq) of a few sequences.
OtherDists == {DDist_of(<<1>>), DDist_of(<<2, 3>>), DDist_of(<<3, 3, 1>>)}

DistSpecInit ==
    /\ DistInit
    /\ header_order = <<"a", "b">>
    /\ TreeInit(Kwargs(FALSE, ENTROPY1, Threshold(1, 1), FALSE))
    /\ root = "node"
    /\ nodes = (<<>> :> Node(None))

\* cdist += value
CDist_fold ==
    /\ Len(folded) < MaxFold
    /\ \E value \in Numbers :
         /\ cdist' = CDist_iadd(cdist, value)
         /\ folded' = Append(folded, value)
    /\ UNCHANGED <<TreeVars, ddist, dist_ops>>

\* ddist.add(k, count)
DDist_add_call ==
    /\ dist_ops < MaxDistOps
    /\ \E k \in Keys, count \in AddCounts : ddist' = DDist_add(ddist, k, count)
    /\ dist_ops' = dist_ops + 1
    /\ UNCHANGED <<TreeVars, folded, cdist>>

\* ddist.update(dist)
DDist_update_call ==
    /\ dist_ops < MaxDistOps
    /\ \E dist \in OtherDists : ddist' = DDist_update(ddist, dist)
    /\ dist_ops' = dist_ops + 1
    /\ UNCHANGED <<TreeVars, folded, cdist>>

DistNext ==
    \/ CDist_fold
    \/ DDist_add_call
    \/ DDist_update_call

DistSpec == DistSpecInit /\ [][DistNext]_vars
(***************************************************************************)
(* Vocabulary of the properties.                                           *)
(***************************************************************************)
\* The query record of a row: the row less its class.
Query(r) == [an \in DOMAIN r \ {class_attr} |-> r[an]]

\* count of the class distribution of a node (DDist.total, CDist.count)
ClassCount(node) ==
    IF is_continuous_class THEN node.class_cdist.mean_count
    ELSE node.class_ddist.total

ValueCountSum(node, a) ==
    ISum(node.attr_value_counts[a], DOMAIN node.attr_value_counts[a])

ChildSum(p) ==
    ISum([v \in nodes[p].branches |-> nodes[Append(p, v)].n], nodes[p].branches)

\* The place of the tree a record comes to rest at: the path of an unsplit
\* node, or the path of a split node extended by a value that has no child
\* node (a leaf distribution kept at the split node, if any).
RECURSIVE Route(_, _, _)
Route(ns, path, record) ==
    IF ns[path].attr_name = None THEN path
    ELSE IF record[ns[path].attr_name] \in ns[path].branches
    THEN Route(ns, Append(path, record[ns[path].attr_name]), record)
    ELSE Append(path, record[ns[path].attr_name])
LeafOf(record) == IF root = "node" THEN Route(nodes, <<>>, record) ELSE <<>>

\* The record comes, on its way down, to a split node with no child for its
\* value of the split attribute.
NewValueAt(ns, record) == Route(ns, <<>>, record) \notin DOMAIN ns

\* The nodes Node.predict is called on for a query.
RECURSIVE Visited(_, _, _)
VisitedBelow(ns, path, record, av) ==
    IF /\ ready_to_predict(ns[path])
       /\ av.error = None
       /\ ns[path].attr_name # None
       /\ av.value \in ns[path].branches
    THEN Visited(ns, Append(path, av.value), record)
    ELSE {}
Visited(ns, path, record) ==
    {path} \cup VisitedBelow(ns, path, record,
                             get_attribute_value_for_node(ns[path], record))
VisitedNodes(q) == IF root = "node" THEN Visited(nodes, <<>>, q) ELSE {}

\* At node p the query's value of the split attribute is none of the values
\* known there.
UnknownValueAt(p, q) ==
    /\ nodes[p].attr_name # None
    /\ q[nodes[p].attr_name] \notin get_values(nodes[p], nodes[p].attr_name)
PolicyAt(p) == DictGet(missing_value_policy, nodes[p].attr_name, None)

\* The prediction for a training row is a distribution whose best (mean) is
\* the row's class.
Correct(r, out) ==
    /\ out.kind = "dist"
    /\ IF is_continuous_class
       THEN out.dist.mean_count > 0 /\ CDist_mean(out.dist) = RInt(r[class_attr])
       ELSE DDist_best(out.dist) = r[class_attr]
Accurate == \A r \in trained : Correct(r, Tree_predict(Query(r)))

\* The non-class attributes of the rows determine the class.
Determined(D) == \A r1, r2 \in D : Query(r1) = Query(r2) => r1[class_attr] = r2[class_attr]

\* The leaves separate the classes: training rows of different classes come
\* to rest at different leaves.
Separated ==
    \A r1, r2 \in trained : LeafOf(r1) = LeafOf(r2) => r1[class_attr] = r2[class_attr]

\* ready_to_split is false at every leaf, and stays false when a training
\* row is streamed again (no split is made, none is pending).
ReadyLeaves(ns) == {p \in DOMAIN ns : ready_to_split(ns[p])}
StaysSettled(res) ==
    DOMAIN res.nodes = DOMAIN nodes /\ ReadyLeaves(res.nodes) = {}
Settled ==
    /\ ReadyLeaves(nodes) = {}
    /\ \A r \in trained : StaysSettled(Node_update(nodes, leaf_count, <<>>, r))

\* Fully grown on the training rows: the leaves separate the classes, and a
\* tree grown online is settled.
FullyGrown == Separated /\ (built \/ Settled)

\* The leaves of the tree: the unsplit nodes, and the leaf distributions
\* kept at split nodes for values that have no child node; a tree that is a
\* bare distribution is one leaf.
LeafDists(node) == get_values(node, node.attr_name) \ node.branches
NumLeaves ==
    IF root # "node" THEN 1
    ELSE Cardinality({p \in DOMAIN nodes : nodes[p].attr_name = None})
           + ISum([p \in DOMAIN nodes |->
                     IF nodes[p].attr_name = None THEN 0
                     ELSE Cardinality(LeafDists(nodes[p]))],
                  DOMAIN nodes)

(***************************************************************************)
(* Properties.                                                             *)
(***************************************************************************)
\* C1: for every Node of a tree, in every reachable state (after Tree.build
\* or after any sequence of Tree.update calls), n equals class_ddist.total
\* (discrete class) or class_cdist.count (continuous class).
C1_NodeCountIsClassCount ==
    \A p \in DOMAIN nodes : nodes[p].n = ClassCount(nodes[p])

\* C2: on a fully grown tree trained on a dataset (batch build, or online
\* updates with auto_grow), Tree.predict on a record equal to a training row
\* returns a distribution whose best (classification) or mean (regression)
\* is that row's class.
C2_TrainingRowsPredicted ==
    (root # "unbuilt" /\ (built \/ auto_grow) /\ FullyGrown) => Accurate

\* C3: when a dataset whose non-class attributes determine the class is
\* streamed through Tree.update on a tree with auto_grow, every update
\* succeeds, and in a state where ready_to_split is false at every leaf and
\* stays false every training row is predicted correctly.
C3_StreamedUpdatesSucceed ==
    (root = "node" /\ ~built /\ auto_grow /\ Determined(trained)) =>
       /\ last.op = "update" => last.outcome.kind = None
       /\ Settled => Accurate

\* C4: after a node has split, an update whose record carries a value of the
\* split attribute for which no child exists creates the child for that
\* value, forwards the record to it, and completes without error.
C4_NewValueGetsChild ==
    [][(updates' = updates + 1 /\ NewValueAt(nodes, last'.record)) =>
          /\ last'.outcome.kind = None
          /\ Route(nodes, <<>>, last'.record) \in DOMAIN nodes'
          /\ nodes'[Route(nodes, <<>>, last'.record)].n = 1]_vars

\* C5: Tree.predict raises NodeNotReadyToPredict if and only if the root node
\* has n = 0; when the descent comes to a child with n = 0, the parent of
\* that child answers with its own distribution for the record's value of
\* the split attribute.
C5_NotReadyOnlyAtEmptyRoot ==
    \A q \in Queries :
       /\ Tree_predict(q).kind = "NodeNotReadyToPredict"
            <=> (root = "node" /\ nodes[<<>>].n = 0)
       /\ \A p \in VisitedNodes(q) :
             (p # <<>> /\ nodes[p].n = 0) =>
                Tree_predict(q) =
                   Return(NodeDecision(nodes[SubSeq(p, 1, Len(p) - 1)], p[Len(p)]))

C5_Witness ==
    /\ last.op = "predict"
    /\ last.outcome.kind = "dist"
    /\ \E q \in Queries :
          /\ Tree_predict(q) = last.outcome
          /\ \E p \in VisitedNodes(q) : p # <<>> /\ nodes[p].n = 0

\* C6: when predict comes to a split node, the record's value of the split
\* attribute is none of the values known at that node and no missing-value
\* policy is installed for that attribute, the call fails with an error and
\* returns no distribution.
C6_UnknownValueNoPolicyFails ==
    \A q \in Queries : \A p \in VisitedNodes(q) :
       (UnknownValueAt(p, q) /\ PolicyAt(p) = None) =>
          Tree_predict(q) = Raise("AssertionError")

C6_Witness ==
    /\ last.op = "predict"
    /\ last.outcome = Raise("AssertionError")
    /\ \E q \in Queries : \E p \in VisitedNodes(q) :
          UnknownValueAt(p, q) /\ PolicyAt(p) = None

\* C7: with the use_nearest policy installed for a discrete or continuous
\* split attribute, predict on a record whose value q of that attribute was
\* never observed at the node resolves q to a known value v that minimises
\* |v - q|, and returns what it returns for the record with the attribute
\* set to v.
C7_UseNearestResolves ==
    \A q \in Queries : \A p \in VisitedNodes(q) :
       (/\ UnknownValueAt(p, q)
        /\ PolicyAt(p) = USE_NEAREST
        /\ AttrType(nodes[p].attr_name) \in {DIS, CON}) =>
          \E v \in get_values(nodes[p], nodes[p].attr_name) :
             /\ \A o \in get_values(nodes[p], nodes[p].attr_name) :
                   Abs(v - q[nodes[p].attr_name]) <= Abs(o - q[nodes[p].attr_name])
             /\ Tree_predict(q) =
                   Tree_predict([q EXCEPT ![nodes[p].attr_name] = v])

C7_Witness ==
    /\ last.op = "predict"
    /\ last.outcome.kind = "dist"
    /\ \E q \in Queries : \E p \in VisitedNodes(q) :
          /\ UnknownValueAt(p, q)
          /\ PolicyAt(p) = USE_NEAREST
          /\ AttrType(nodes[p].attr_name) \in {DIS, CON}
          /\ Cardinality(get_values(nodes[p], nodes[p].attr_name)) >= 2
          /\ Tree_predict(q) = last.outcome

\* C8: for every node and every attribute a observed at it,
\* attr_value_count_totals[a] is the sum over v of attr_value_counts[a][v],
\* after any sequence of Node.update and Node.set_leaf_dist calls.
C8_TotalsAreSums ==
    \A p \in DOMAIN nodes : \A a \in DOMAIN nodes[p].attr_value_counts :
       /\ a \in DOMAIN nodes[p].attr_value_count_totals
       /\ nodes[p].attr_value_count_totals[a] = ValueCountSum(nodes[p], a)

C8_Witness ==
    /\ last.op = "update"
    /\ \E p \in DOMAIN nodes : \E a \in DOMAIN nodes[p].attr_value_counts :
          /\ Cardinality(DOMAIN nodes[p].attr_value_counts[a]) >= 2
          /\ nodes[p].attr_value_count_totals[a] >= 3

\* C9: for every split node, the sum of n over its child nodes is at most
\* the node's own n, in batch-built and online-grown trees.
C9_ChildrenWithinParent ==
    \A p \in DOMAIN nodes :
       nodes[p].attr_name # None => ChildSum(p) <= nodes[p].n

C9_Witness ==
    \E p \in DOMAIN nodes :
       /\ nodes[p].attr_name # None
       /\ 0 < ChildSum(p)
       /\ ChildSum(p) < nodes[p].n

\* C10: Tree.leaf_count is the number of leaves of the tree, after
\* Tree.build and after any sequence of Tree.update calls on an online tree.
C10_LeafCountIsLeaves ==
    root # "unbuilt" => leaf_count = NumLeaves

(***************************************************************************)
(* The records behind a node of a built tree.                              *)
(***************************************************************************)
Parent(p) == SubSeq(p, 1, Len(p) - 1)

\* The attributes the nodes above p have split on, and those left at p.
PathAttrs(p) == {nodes[SubSeq(p, 1, i)].attr_name : i \in 0..(Len(p) - 1)}
AttrsAt(p) == attribute_names \ PathAttrs(p)

\* The list create_decision_tree was called with for the node at p: the
\* rows of the dataset that take the values of p at the attributes above.
RECURSIVE DataAt(_)
DataAt(p) ==
    IF p = <<>> THEN built_data
    ELSE Subset(DataAt(Parent(p)), nodes[Parent(p)].attr_name, p[Len(p)])

\* The leaf distribution a split node keeps for a value of its attribute.
HasLeafDist(node, v) ==
    IF is_continuous_class
    THEN v \in DOMAIN DictGet(node.attr_value_cdist, node.attr_name, EmptyDict)
    ELSE v \in DOMAIN DictGet(node.attr_class_value_counts, node.attr_name,
                              EmptyDict)
LeafDistOf(node, v) ==
    IF is_continuous_class THEN node.attr_value_cdist[node.attr_name][v]
    ELSE get_value_ddist(node, node.attr_name, v)

\* C11: a node made by the batch build from dataset D with split attribute
\* a has n = |D|; each distinct value v of a in D has either a child node in
\* branches[v] or a leaf distribution recorded for v, the one of the rows of
\* D with a = v, never both; get_values(a) is the set of the distinct values
\* of a in D.
C11_BuiltNodeMatchesData ==
    built =>
      \A p \in DOMAIN nodes :
         LET node == nodes[p]
             D == DataAt(p)
             a == node.attr_name
         IN  /\ node.n = Len(D)
             /\ get_values(node, a) = get_values_of(D, a)
             /\ \A v \in get_values_of(D, a) :
                   \/ /\ v \in node.branches
                      /\ Append(p, v) \in DOMAIN nodes
                      /\ ~HasLeafDist(node, v)
                   \/ /\ v \notin node.branches
                      /\ Append(p, v) \notin DOMAIN nodes
                      /\ HasLeafDist(node, v)
                      /\ LeafDistOf(node, v) = StopValue(Subset(D, a, v))

C11_Witness ==
    /\ built
    /\ last.op = "build"
    /\ Len(built_data) = 3
    /\ \E p \in DOMAIN nodes :
          /\ nodes[p].branches # {}
          /\ LeafDists(nodes[p]) # {}

\* The gains Node.get_gain gives at the nodes of an online tree that hold
\* records, and the gains the batch gain gives over the record lists of a
\* build, are all at least zero.
NodeGainsNonNegative ==
    (root = "node" /\ ~built) =>
      \A p \in DOMAIN nodes :
         nodes[p].n > 0 =>
           \A a \in attributes(nodes[p]) :
              RLe(RInt(0), get_gain(nodes[p], a))
BatchGainsNonNegative ==
    built =>
      \A p \in DOMAIN nodes \cup {<<>>} :
         DataAt(p) # <<>> =>
           \A a \in AttrsAt(p) : RLe(RInt(0), gain(DataAt(p), a, metric))

ClassDist(node) ==
    IF is_continuous_class THEN node.class_cdist ELSE node.class_ddist

\* C13: with auto_grow false no node ever splits: after any sequence of
\* Tree.update calls the root has no attr_name and no children, and
\* Tree.predict returns the root's class distribution (once the root holds
\* a record; before that predict raises NodeNotReadyToPredict).
C13_NoGrowthWithoutAutoGrow ==
    (root = "node" /\ ~built /\ ~auto_grow) =>
       /\ nodes[<<>>].attr_name = None
       /\ nodes[<<>>].branches = {}
       /\ DOMAIN nodes = {<<>>}
       /\ nodes[<<>>].n > 0 =>
             \A q \in Queries : Tree_predict(q) = Return(ClassDist(nodes[<<>>]))

\* Three updates of two classes (n >= splitting_n, no class adequate), then
\* a prediction that returned the root's class distribution.
C13_Witness ==
    /\ ~built
    /\ ~auto_grow
    /\ updates = MaxUpdates
    /\ Cardinality(DOMAIN nodes[<<>>].class_ddist.counts) = 2
    /\ last.op = "predict"
    /\ last.outcome = Return(nodes[<<>>].class_ddist)

C15_CDistMatchesSequence ==
    /\ CDist_count(cdist) = Len(folded)
    /\ folded # <<>> =>
          /\ CDist_mean(cdist) = mean(folded)
          /\ CDist_variance(cdist) = variance(folded)
    /\ CDist_count(cdist) = 0 =>
          /\ CDist_mean(cdist) = NoNumber
          /\ CDist_variance(cdist) = NoNumber

C15_Witness ==
    /\ Len(folded) = MaxFold
    /\ \E i, j \in DOMAIN folded : folded[i] < 0 /\ folded[j] > 0
    /\ RLt(RInt(2), CDist_variance(cdist))
    /\ CDist_mean(cdist) = mean(folded)

\* C16: for a DDist reached by any sequence of add and update (merge)
\* calls, total is the sum of all counts, best is a value of maximal count,
\* the greatest key among the values tied on the count, and best_prob is
\* counts[best] / total.
C16_DDistTotalsAndBest ==
    /\ ddist.total = ISum(ddist.counts, DOMAIN ddist.counts)
    /\ DDist_has_probs(ddist) =>
          LET best == DDist_best(ddist)
          IN  /\ best \in DOMAIN ddist.counts
              /\ \A k \in DOMAIN ddist.counts :
                    /\ ddist.counts[k] <= ddist.counts[best]
                    /\ ddist.counts[k] = ddist.counts[best] => k <= best
              /\ DDist_best_prob(ddist) = RNorm(ddist.counts[best], ddist.total)

\* A merge has brought two keys to the same, maximal count.
C16_Witness ==
    /\ dist_ops = MaxDistOps
    /\ \E dist \in OtherDists : \E k \in Keys, count \in AddCounts :
          ddist = DDist_update(DDist_add(DDist_add(DDist_clear, k, count),
                                         k, count), dist)
    /\ \E j, k \in DOMAIN ddist.counts :
          /\ j < k
          /\ ddist.counts[j] = ddist.counts[k]
          /\ DDist_best(ddist) = k

\* The record a node at p receives of a record given to the tree: the
\* attributes split on above p are deleted on the way.
RecordAt(p, record) == [an \in DOMAIN record \ PathAttrs(p) |-> record[an]]

\* x < y in the order the code compares in: None sorts below every number.
BestProbOf(node) ==
    IF DDist_has_probs(node.class_ddist) THEN DDist_best_prob(node.class_ddist)
    ELSE NoNumber
ThresholdValue == IF leaf_threshold.none THEN NoNumber ELSE leaf_threshold.val
Less(x, y) ==
    IF y = NoNumber THEN FALSE ELSE IF x = NoNumber THEN TRUE ELSE RLt(x, y)

\* Leaf quality below the threshold: best_prob < leaf_threshold for a
\* discrete class, variance > leaf_threshold for a continuous one.
QualityBelowThreshold(node) ==
    IF is_continuous_class
    THEN Less(ThresholdValue, CDist_variance(node.class_cdist))
    ELSE Less(BestProbOf(node), ThresholdValue)

ReadyAsStated(node) ==
    ready_to_split(node) <=>
       /\ auto_grow
       /\ node.attr_name = None
       /\ node.n >= splitting_n
       /\ QualityBelowThreshold(node)

StatsAt(p, record) == UpdateStatistics(nodes[p], RecordAt(p, record))

\* The children of the node at p in a tree.
ChildrenOf(ns, p) == {q \in DOMAIN ns : Len(q) = Len(p) + 1 /\ Parent(q) = p}

\* What the split of the node at p on attribute best leaves after the
\* update with the record: attr_name, one child per value observed, all of
\* them empty but the child of the record's value, which holds the record
\* less the split attribute.
SplitDone(p, record, best, vals) ==
    /\ nodes'[p].attr_name = best
    /\ nodes'[p].branches = vals
    /\ ChildrenOf(nodes', p) = ChildPaths(p, vals)
    /\ record[best] \in vals
    /\ \A v \in vals \ {record[best]} : nodes'[Append(p, v)] = Node(None)
    /\ nodes'[Append(p, record[best])].n = 1
    /\ nodes'[Append(p, record[best])].attr_name = None
    /\ attributes(nodes'[Append(p, record[best])])
          = DOMAIN RecordAt(p, record) \ {class_attr, best}
    /\ last'.outcome = Raise(None)

LeafAsStated(D, A) ==
    \/ D = <<>>
    \/ A = {}
    \/ StopTest(StopValue(D))

\* C19: the batch build returns a leaf (the stop distribution) for dataset
\* D and remaining attributes A exactly when D is empty, or no non-class
\* attribute remains in A, or the stop test holds; in every other case it
\* makes a node that splits on a remaining non-class attribute.  Stated for
\* the call made by Tree.build and for every recursive call below it.
C19_LeafExactlyWhenStated ==
    built =>
      /\ root # "node" <=> LeafAsStated(built_data, attribute_names)
      /\ root = "node" =>
            \A p \in DOMAIN nodes :
               /\ nodes[p].attr_name \in AttrsAt(p)
               /\ \A v \in get_values_of(DataAt(p), nodes[p].attr_name) :
                     Append(p, v) \notin DOMAIN nodes
                       <=> LeafAsStated(Subset(DataAt(p), nodes[p].attr_name, v),
                                        AttrsAt(p) \ {nodes[p].attr_name})

\* best has the maximal gain and, among the attributes of that gain, the
\* greatest name.
GreatestOfTies(gains, best) ==
    /\ best \in DOMAIN gains
    /\ \A o \in DOMAIN gains :
          /\ RLe(gains[o], gains[best])
          /\ gains[o] = gains[best] => NameRank(o) <= NameRank(best)

\* C20: when several non-class attributes share the maximal gain, both
\* choose_attribute (batch) and Node.get_best_splitting_attr (online) select
\* the one that is greatest under (gain, name) comparison, the greatest
\* name among the tied attributes; the class attribute is never selected,
\* also when the list handed to choose_attribute holds it.
C20_TiesGoToGreatestName ==
    /\ (root = "node" /\ ~built) =>
          \A p \in DOMAIN nodes :
             attributes(nodes[p]) # {} =>
               /\ get_best_splitting_attr(nodes[p]) # class_attr
               /\ GreatestOfTies([a \in attributes(nodes[p]) |->
                                    get_gain(nodes[p], a)],
                                 get_best_splitting_attr(nodes[p]))
    /\ (root = "node" /\ built) =>
          \A p \in DOMAIN nodes :
             /\ choose_attribute(DataAt(p), AttrsAt(p) \cup {class_attr}, metric)
                   = nodes[p].attr_name
             /\ nodes[p].attr_name # class_attr
             /\ GreatestOfTies([a \in AttrsAt(p) |->
                                  gain(DataAt(p), a, metric)],
                               nodes[p].attr_name)

\* A node that has just split on b, the gains of a and b being equal.
C20_Witness ==
    /\ last.op = "update"
    /\ \E p \in DOMAIN nodes :
          /\ nodes[p].n = splitting_n
          /\ nodes[p].attr_name = "b"
          /\ attributes(nodes[p]) = {"a", "b"}
          /\ get_gain(nodes[p], "a") = get_gain(nodes[p], "b")
          /\ get_best_splitting_attr(nodes[p]) = "b"

(***************************************************************************)
(* The scan of the known values under use_nearest.  get_values returns a   *)
(* set, so the order of the scan is any order of its elements.             *)
(***************************************************************************)
ScanOrders(S) ==
    {o \in [1..Cardinality(S) -> S] :
        \A i, j \in 1..Cardinality(S) : i # j => o[i] # o[j]}

\* A faulty variant of MinPair: the tuple found first stays on equal
\* distance.
MinPairFirst(x, y) == IF y[1] < x[1] THEN y ELSE x

\* min of two (distance, value) tuples
MinPair(x, y) ==
    IF x[1] < y[1] \/ (x[1] = y[1] /\ x[2] <= y[2]) THEN x ELSE y

\* lines 742-748: nearest = min(nearest, (abs(_value - attr_value), _value))
\* over the values in the order scanned; the pair after the first i values
RECURSIVE ScanPair(_, _, _)
ScanPair(order, attr_value, i) ==
    IF i = 1 THEN <<Abs(order[1] - attr_value), order[1]>>
    ELSE MinPair(ScanPair(order, attr_value, i - 1),
                 <<Abs(order[i] - attr_value), order[i]>>)
ScanNearest(order, attr_value) == ScanPair(order, attr_value, Len(order))[2]

\* The first value of the scan among the values nearest to attr_value.
FirstNearest(order, attr_value) ==
    LET i == CHOOSE k \in DOMAIN order :
               /\ \A j \in DOMAIN order :
                     Abs(order[k] - attr_value) <= Abs(order[j] - attr_value)
               /\ \A j \in 1..(k - 1) :
                     Abs(order[k] - attr_value) < Abs(order[j] - attr_value)
    IN  order[i]

\* The split nodes and values use_nearest resolves: the attribute is
\* discrete or continuous, the policy is installed and the value unknown.
NearestCases ==
    {c \in (DOMAIN nodes) \X (1..3) :
        /\ nodes[c[1]].attr_name # None
        /\ AttrType(nodes[c[1]].attr_name) \in {DIS, CON}
        /\ DictGet(missing_value_policy, nodes[c[1]].attr_name, None) = USE_NEAREST
        /\ c[2] \in AttrValues(nodes[c[1]].attr_name)
        /\ c[2] \notin get_values(nodes[c[1]], nodes[c[1]].attr_name)}
KnownValues(p) == get_values(nodes[p], nodes[p].attr_name)

\* C21: under use_nearest, when two or more known values of the split
\* attribute are equally near the query value, the value chosen is the
\* first one encountered when scanning the known values.
C21_NearestTieFirstScanned ==
    root = "node" =>
      \A c \in NearestCases : \A order \in ScanOrders(KnownValues(c[1])) :
         ScanNearest(order, c[2]) = FirstNearest(order, c[2])

\* C21, as the code has it: the value chosen is the least of the values
\* equally near, whatever the order of the scan.
C21_NearestTieLeastValue ==
    root = "node" =>
      \A c \in NearestCases : \A order \in ScanOrders(KnownValues(c[1])) :
         /\ ScanNearest(order, c[2]) = Nearest(KnownValues(c[1]), c[2])
         /\ \A v \in KnownValues(c[1]) :
               \/ Abs(ScanNearest(order, c[2]) - c[2]) < Abs(v - c[2])
               \/ /\ Abs(ScanNearest(order, c[2]) - c[2]) = Abs(v - c[2])
                  /\ ScanNearest(order, c[2]) <= v

\* A query with a = 2 answered by a root that knows a = 1 and a = 3.
C21_Witness ==
    /\ root = "node"
    /\ last.op = "predict"
    /\ last.outcome.kind = "dist"
    /\ nodes[<<>>].attr_name = "a"
    /\ KnownValues(<<>>) = {1, 3}
    /\ <<<<>>, 2>> \in NearestCases
    /\ \E q \in Queries : q["a"] = 2 /\ last.outcome = Tree_predict(q)

\* C22: applying the use-nearest policy to a nominal attribute is rejected
\* by Tree.set_missing_value_policy: the call fails, and the policy map is
\* left without an entry for the nominal attribute.
C22_NominalRejectsUseNearest ==
    /\ \A an \in attribute_names :
          AttrType(an) = NOM => an \notin DOMAIN missing_value_policy
    /\ (last.op = "set_missing_value_policy"
          /\ \E an \in attribute_names : AttrType(an) = NOM)
         => last.outcome.kind # None

\* The records attr_class_value_counts holds for a value of an attribute.
ClassCountSum(node, a, v) ==
    LET cc == DictGet(DictGet(node.attr_class_value_counts, a, EmptyDict),
                      v, EmptyDict)
    IN  ISum(cc, DOMAIN cc)

\* C23: for every node with a discrete class, every attribute a and value
\* v, the sum over the class values c of attr_class_value_counts[a][v][c]
\* is attr_value_counts[a][v], in nodes grown online by update and in nodes
\* filled by the batch build through set_leaf_dist.
C23_ClassCountsSumToValueCount ==
    ~is_continuous_class =>
      \A p \in DOMAIN nodes : \A a \in DOMAIN nodes[p].attr_value_counts :
         \A v \in DOMAIN nodes[p].attr_value_counts[a] :
            ClassCountSum(nodes[p], a, v) = nodes[p].attr_value_counts[a][v]

\* The number of records given to Tree.update so far that satisfy a test.
UpdatedWith(test(_)) ==
    ISum([r \in DOMAIN updated |-> IF test(r) THEN updated[r] ELSE 0],
         DOMAIN updated)
RootValueCount(a, v) ==
    DictGet(DictGet(nodes[<<>>].attr_value_counts, a, EmptyDict), v, 0)
RootClassValueCount(a, v, c) ==
    DictGet(DictGet(DictGet(nodes[<<>>].attr_class_value_counts, a, EmptyDict),
                    v, EmptyDict), c, 0)

\* C24: after the root has been updated with any sequence of records D that
\* each contain every attribute, attr_value_counts[a][v] is the number of
\* records of D with record[a] = v and attr_class_value_counts[a][v][c] the
\* number with record[a] = v and class c, whatever the order of D and
\* whether and when the root split.
C24_RootCountsMatchRecords ==
    (root = "node" /\ ~built) =>
      \A a \in attribute_names : \A v \in AttrValues(a) :
         /\ RootValueCount(a, v) = UpdatedWith(LAMBDA r : r[a] = v)
         /\ ~is_continuous_class =>
               \A c \in ClassValues :
                  RootClassValueCount(a, v, c)
                    = UpdatedWith(LAMBDA r : r[a] = v /\ r[class_attr] = c)

\* Three updates, one record given twice, the last one after the root split.
C24_Witness ==
    /\ ~built
    /\ last.op = "update"
    /\ updates = MaxUpdates
    /\ nodes[<<>>].attr_name # None
    /\ nodes[<<>>].n > splitting_n
    /\ \E r \in DOMAIN updated : updated[r] >= 2
    /\ RootValueCount("a", last.record["a"]) >= 2

\* The record lists the batch build computes an entropy of: the dataset and
\* the rows behind each node.
BuiltLists ==
    {D \in {built_data} \cup
           (IF root = "node" THEN {DataAt(p) : p \in DOMAIN nodes} ELSE {}) :
        D # <<>>}
DistinctClasses(D) == Cardinality({D[i][class_attr] : i \in DOMAIN D})

\* C25: in the batch path, entropy2 of a dataset D is entropy1(D) + U/len(D)
\* and entropy3 is entropy1(D) + 100*U/len(D), U the number of distinct
\* class values in D: the formula of the online node path, whose value for
\* a node holding the class values of D is main_entropy.
C25_BatchEntropyPenalty ==
    (built /\ ~is_continuous_class) =>
      \A D \in BuiltLists :
         /\ entropy(D, ENTROPY2)
              = RAdd(entropy(D, ENTROPY1), RNorm(DistinctClasses(D), Len(D)))
         /\ entropy(D, ENTROPY3)
              = RAdd(entropy(D, ENTROPY1),
                     RMul(RInt(100), RNorm(DistinctClasses(D), Len(D))))
         /\ metric \in {ENTROPY2, ENTROPY3} =>
              entropy(D, metric)
                = main_entropy([Node(None) EXCEPT
                                  !.class_ddist = DDist_of(ClassColumn(D))])

\* C26: splits are permanent and counts are monotone: once a node's
\* attr_name is set it never changes, no child is removed or replaced, and
\* n of no node decreases, across any sequence of Tree.update and
\* Tree.predict calls.
C26_SplitsPermanentCountsMonotone ==
    [][\A p \in DOMAIN nodes :
          /\ p \in DOMAIN nodes'
          /\ nodes'[p].n >= nodes[p].n
          /\ nodes[p].branches \subseteq nodes'[p].branches
          /\ nodes[p].attr_name # None
               => nodes'[p].attr_name = nodes[p].attr_name]_vars

\* An update that went through a root split earlier to a child that held a
\* record already.
C26_Witness ==
    /\ ~built
    /\ last.op = "update"
    /\ nodes[<<>>].attr_name # None
    /\ nodes[<<>>].n = splitting_n + 1
    /\ \E v \in nodes[<<>>].branches : nodes[<<v>>].n = 2

\* C27: on every root-to-leaf path of a tree, batch-built or grown online,
\* no attribute is the split attribute of two nodes; the depth of the tree
\* is therefore at most the number of non-class attributes, which bounds
\* the recursion of Node.update and of create_decision_tree.
C27_NoAttributeTwiceOnPath ==
    root = "node" =>
      \A p \in DOMAIN nodes :
         /\ nodes[p].attr_name # None => nodes[p].attr_name \notin PathAttrs(p)
         /\ Cardinality(PathAttrs(p)) = Len(p)
         /\ Len(p) <= Cardinality(attribute_names)

\* A path with two split nodes, in a tree grown online.
C27_Witness ==
    /\ ~built
    /\ last.op = "update"
    /\ \E p \in DOMAIN nodes :
          /\ Len(p) = 1
          /\ nodes[p].attr_name # None
          /\ nodes[<<>>].attr_name # nodes[p].attr_name
          /\ nodes[p].branches # {}

\* C28: after Tree.build on any non-empty dataset the root of the tree is a
\* Node, and Tree.predict returns a distribution for every training row.
C28_BuiltRootIsNode ==
    (built /\ built_data # <<>>) =>
       /\ root = "node"
       /\ \A i \in DOMAIN built_data :
             Tree_predict(Query(built_data[i])).kind = "dist"

\* The count of a distribution predict returns (DDist.count, CDist.count).
DistCount(dist) == IF is_continuous_class THEN CDist_count(dist) ELSE dist.total

\* C29: every distribution a successful Tree.predict returns has count > 0,
\* so that best or mean is defined: for the result of a leaf, for the
\* answer of a parent whose child has n = 0, and for a value resolved by
\* use_nearest.
C29_PredictedCountPositive ==
    \A q \in Queries :
       Tree_predict(q).kind = "dist" => DistCount(Tree_predict(q).dist) > 0

\* A prediction answered by the parent of a child with n = 0, and one that
\* use_nearest resolved.
C29_Witness ==
    /\ last.op = "predict"
    /\ last.outcome.kind = "dist"
    /\ DistCount(last.outcome.dist) > 0
    /\ \E q \in Queries :
          /\ last.outcome = Tree_predict(q)
          /\ \E p \in VisitedNodes(q) : nodes[p].n = 0
    /\ \E q \in Queries :
          /\ Tree_predict(q).kind = "dist"
          /\ \E p \in VisitedNodes(q) : UnknownValueAt(p, q)

\* C30: a failed Tree.update leaves the tree unchanged: if the call raises,
\* then n, the class distribution, the attribute statistics and the
\* children of every node are what they were before the call.
C30_FailedUpdateChangesNothing ==
    [][(updates' = updates + 1 /\ last'.outcome.kind # None)
         => nodes' = nodes]_vars

=============================================================================
